---- MODULE Spec2Model ----
(***************************************************************************)
(* State-machine model of the tRNA read classifier of tRNA-seq-tools:      *)
(* Sorter.is_tRNA and its helpers (src/tRNASeqTools/sorter.py), driven by  *)
(* the read loop of Sorter.process.  A read is a sequence of one-letter    *)
(* strings; Python's 0-based slices and indices are modelled by PySlice    *)
(* and PyIndex.                                                            *)
(***************************************************************************)
EXTENDS Integers, Sequences, FiniteSets, TLC

VARIABLES
    pc,             \* "idle": between reads; "scan": inside the window loop; "done": is_tRNA returned
    seq,            \* the argument of the running (or last) is_tRNA call
    i,              \* the loop variable of the window scan
    cur_seq_specs,  \* the SeqSpecs record of the running (or last) call
    res,            \* res_tup[0] of the last return
    stats_dict,     \* Sorter.stats_dict
    stats_entry,    \* history: stats_dict before the running loop iteration of process
    memo,           \* history: upper-cased read -> first result returned for it
    batch           \* history: the reads classified so far, in order

vars == <<pc, seq, i, cur_seq_specs, res, stats_dict, stats_entry, memo, batch>>

-----------------------------------------------------------------------------
(* Bounds of the model *)

MaxReads == 2       \* reads processed in one run of Spec

MaxBatch == 3       \* reads processed in one run of SpecBatch

MaxTrailer == 2     \* longest 3' trailer appended to the trailer reads

-----------------------------------------------------------------------------
(* Program constants *)

sub_size == 24

MisCountDefault == 100

AcceptBelow == 2

FullLengthAbove == 70

FullLengthBelow == 100

-----------------------------------------------------------------------------
(* Python sequence primitives *)

Min2(a, b) == IF a <= b THEN a ELSE b

Max2(a, b) == IF a >= b THEN a ELSE b

\* A slice bound of Python: negative counts from the end, both clamp to 0..n.
PyBound(x, n) == IF x < 0 THEN Max2(x + n, 0) ELSE Min2(x, n)

\* s[a:b] of Python, a and b 0-based.
PySlice(s, a, b) ==
    LET lo == PyBound(a, Len(s))
        hi == PyBound(b, Len(s))
    IN  IF lo >= hi THEN <<>> ELSE SubSeq(s, lo + 1, hi)

\* s[k] of Python, k 0-based, negative from the end.
PyIndex(s, k) == IF k < 0 THEN s[Len(s) + k + 1] ELSE s[k + 1]

\* range(n) of Python has max(n, 0) elements.
PyRangeLen(n) == Max2(n, 0)

UpperChar(c) ==
    CASE c = "a" -> "A"
      [] c = "c" -> "C"
      [] c = "g" -> "G"
      [] c = "t" -> "T"
      [] OTHER -> c

\* str.upper()
Upper(s) == [k \in DOMAIN s |-> UpperChar(s[k])]

RECURSIVE FillRow(_, _, _, _)
\* A row of the edit-distance table of a and b, filled from the left: prev
\* is the row above, c the character of a the row stands for, row the
\* entries filled so far.  Entry y of a row is its element y + 1.
FillRow(prev, c, b, row) ==
    IF Len(row) > Len(b) THEN row
    ELSE LET y == Len(row)
             del == prev[y + 1] + 1
             ins == row[y] + 1
             sub == prev[y] + (IF c = b[y] THEN 0 ELSE 1)
             one == IF del <= ins THEN del ELSE ins
         IN  FillRow(prev, c, b, Append(row, IF one <= sub THEN one ELSE sub))

RECURSIVE DistanceRow(_, _, _)
\* Row x of the table: the distances of the first x characters of a to the
\* prefixes of b.
DistanceRow(a, b, x) ==
    IF x = 0 THEN [y \in 1..(Len(b) + 1) |-> y - 1]
    ELSE LET prev == DistanceRow(a, b, x - 1)
         IN  FillRow(prev, a[x], b, <<prev[1] + 1>>)

\* Levenshtein.distance: insertions, deletions, substitutions at unit cost.
distance(a, b) == DistanceRow(a, b, Len(a))[Len(b) + 1]

-----------------------------------------------------------------------------
(* The motifs *)

GTTC == <<"G", "T", "T", "C">>

CCA == <<"C", "C", "A">>

-----------------------------------------------------------------------------
(* SeqSpecs and the counters *)

SeqSpecs ==
    [length |-> 0, mis_count |-> MisCountDefault,
     t_loop_error |-> TRUE, acceptor_error |-> TRUE,
     seq |-> <<>>, seq_sub |-> <<>>, full_length |-> FALSE,
     t_loop_seq |-> <<>>, acceptor_seq |-> <<>>,
     three_trailer |-> <<>>, trailer_length |-> 0, anticodon |-> "none"]

Counters ==
    {"total_seqs", "total_passed", "total_rejected", "total_full_length",
     "t_loop_divergence", "acceptor_divergence", "no_divergence",
     "div_at_0", "div_at_1", "div_at_2", "div_at_3", "div_at_8",
     "div_at_neg_3", "div_at_neg_2", "div_at_neg_1",
     "short_rejected", "both_rejected", "acceptor_seq_rejected",
     "t_loop_seq_rejected"}

\* collections.Counter(): every key reads 0 until incremented.
EmptyStats == [c \in Counters |-> 0]

\* stats[key] += 1
Inc(stats, key) == [stats EXCEPT ![key] = @ + 1]

-----------------------------------------------------------------------------
(* The window scan of is_tRNA *)

\* seq[-(i + sub_size):(length - i)]
Window(s, k) == PySlice(s, -(k + sub_size), Len(s) - k)

\* sub_str[0:9]
TLoopSeq(sub_str) == PySlice(sub_str, 0, 9)

\* sub_str[-3:]
AcceptorSeq(sub_str) == PySlice(sub_str, -3, Len(sub_str))

TLoopDistNoPos8(sub_str) == distance(GTTC, PySlice(sub_str, 0, 4))

TLoopDist(sub_str) ==
    distance(GTTC, PySlice(sub_str, 0, 4))
        + distance(<<"C">>, <<PyIndex(sub_str, 8)>>)

AcceptorDist(sub_str) == distance(CCA, PySlice(sub_str, -3, Len(sub_str)))

MisCount(sub_str) == TLoopDist(sub_str) + AcceptorDist(sub_str)

ImprovesOrTies(mis_count, rec) == mis_count <= rec.mis_count

\* if mis_count < cur_seq_specs.mis_count
Improves(mis_count, rec) == mis_count < rec.mis_count

AcceptsOnlyPerfect(mis_count) == mis_count < 1

\* if mis_count < 2
Accepts(mis_count) == mis_count < AcceptBelow

\* The record after window k of read s has been evaluated.
UpdateBest(rec, s, k) ==
    LET sub_str == Window(s, k)
    IN  IF Improves(MisCount(sub_str), rec)
        THEN [rec EXCEPT !.length = Len(s),
                         !.mis_count = MisCount(sub_str),
                         !.t_loop_error = ~(TLoopDist(sub_str) < 1),
                         !.acceptor_error = ~(AcceptorDist(sub_str) < 1),
                         !.seq = s,
                         !.seq_sub = sub_str,
                         !.t_loop_seq = TLoopSeq(sub_str),
                         !.acceptor_seq = AcceptorSeq(sub_str)]
        ELSE rec

-----------------------------------------------------------------------------
(* The helpers run on a passed sequence *)

check_divergence_pos_no_else(stats, rec) ==
    IF rec.t_loop_error
    THEN LET s1 == Inc(stats, "t_loop_divergence")
         IN  IF PyIndex(rec.seq_sub, 0) # "G" THEN Inc(s1, "div_at_0")
             ELSE IF PyIndex(rec.seq_sub, 1) # "T" THEN Inc(s1, "div_at_1")
             ELSE IF PyIndex(rec.seq_sub, 2) # "T" THEN Inc(s1, "div_at_2")
             ELSE IF PyIndex(rec.seq_sub, 3) # "C" THEN Inc(s1, "div_at_3")
             ELSE IF PyIndex(rec.seq_sub, 8) # "C" THEN Inc(s1, "div_at_8")
             ELSE s1
    ELSE IF rec.acceptor_error
    THEN LET s1 == Inc(stats, "acceptor_divergence")
         IN  IF PyIndex(rec.seq_sub, -3) # "C" THEN Inc(s1, "div_at_neg_3")
             ELSE IF PyIndex(rec.seq_sub, -2) # "C" THEN Inc(s1, "div_at_neg_2")
             ELSE IF PyIndex(rec.seq_sub, -1) # "A" THEN Inc(s1, "div_at_neg_1")
             ELSE s1
    ELSE stats

check_divergence_pos_no_pos_8(stats, rec) ==
    IF rec.t_loop_error
    THEN LET s1 == Inc(stats, "t_loop_divergence")
         IN  IF PyIndex(rec.seq_sub, 0) # "G" THEN Inc(s1, "div_at_0")
             ELSE IF PyIndex(rec.seq_sub, 1) # "T" THEN Inc(s1, "div_at_1")
             ELSE IF PyIndex(rec.seq_sub, 2) # "T" THEN Inc(s1, "div_at_2")
             ELSE IF PyIndex(rec.seq_sub, 3) # "C" THEN Inc(s1, "div_at_3")
             ELSE s1
    ELSE IF rec.acceptor_error
    THEN LET s1 == Inc(stats, "acceptor_divergence")
         IN  IF PyIndex(rec.seq_sub, -3) # "C" THEN Inc(s1, "div_at_neg_3")
             ELSE IF PyIndex(rec.seq_sub, -2) # "C" THEN Inc(s1, "div_at_neg_2")
             ELSE IF PyIndex(rec.seq_sub, -1) # "A" THEN Inc(s1, "div_at_neg_1")
             ELSE s1
    ELSE Inc(stats, "no_divergence")

check_divergence_pos(stats, rec) ==
    IF rec.t_loop_error
    THEN LET s1 == Inc(stats, "t_loop_divergence")
         IN  IF PyIndex(rec.seq_sub, 0) # "G" THEN Inc(s1, "div_at_0")
             ELSE IF PyIndex(rec.seq_sub, 1) # "T" THEN Inc(s1, "div_at_1")
             ELSE IF PyIndex(rec.seq_sub, 2) # "T" THEN Inc(s1, "div_at_2")
             ELSE IF PyIndex(rec.seq_sub, 3) # "C" THEN Inc(s1, "div_at_3")
             ELSE IF PyIndex(rec.seq_sub, 8) # "C" THEN Inc(s1, "div_at_8")
             ELSE s1
    ELSE IF rec.acceptor_error
    THEN LET s1 == Inc(stats, "acceptor_divergence")
         IN  IF PyIndex(rec.seq_sub, -3) # "C" THEN Inc(s1, "div_at_neg_3")
             ELSE IF PyIndex(rec.seq_sub, -2) # "C" THEN Inc(s1, "div_at_neg_2")
             ELSE IF PyIndex(rec.seq_sub, -1) # "A" THEN Inc(s1, "div_at_neg_1")
             ELSE s1
    ELSE Inc(stats, "no_divergence")

split_3_trailer_one_short(rec, k) ==
    LET full_seq == rec.seq
        kept == PySlice(full_seq, 0, rec.length - k - 1)
        trailer == PySlice(full_seq, rec.length - k - 1, Len(full_seq))
    IN  [rec EXCEPT !.seq = kept,
                    !.three_trailer = trailer,
                    !.length = Len(kept),
                    !.trailer_length = Len(trailer)]

split_3_trailer(rec, k) ==
    LET full_seq == rec.seq
        kept == PySlice(full_seq, 0, rec.length - k)
        trailer == PySlice(full_seq, rec.length - k, Len(full_seq))
    IN  [rec EXCEPT !.seq = kept,
                    !.three_trailer = trailer,
                    !.length = Len(kept),
                    !.trailer_length = Len(trailer)]

IsFullLengthFrom70(rec) ==
    /\ rec.length >= FullLengthAbove /\ rec.length < FullLengthBelow
    /\ PyIndex(rec.seq, 7) = "T" /\ PyIndex(rec.seq, 13) = "A"

\* The two nested conditions of check_full_length.
IsFullLength(rec) ==
    /\ rec.length > FullLengthAbove /\ rec.length < FullLengthBelow
    /\ PyIndex(rec.seq, 7) = "T" /\ PyIndex(rec.seq, 13) = "A"

check_full_length(stats, rec) ==
    IF IsFullLength(rec)
    THEN [stats_dict |-> Inc(stats, "total_full_length"),
          cur_seq_specs |-> [rec EXCEPT !.full_length = TRUE]]
    ELSE [stats_dict |-> stats, cur_seq_specs |-> rec]

\* The anticodon extractor is a collaborator outside the classifier: the
\* field records which of its two operations is applied to the trimmed seq.
assign_anticodons(rec) ==
    IF rec.full_length
    THEN [rec EXCEPT !.anticodon = "extract_anticodon"]
    ELSE [rec EXCEPT !.anticodon = "extract_anticodon_not_full_length"]

handle_pass_seq(stats, rec, k) ==
    LET s1 == Inc(stats, "total_passed")
        s2 == check_divergence_pos(s1, rec)
        r1 == split_3_trailer(rec, k)
        fl == check_full_length(s2, r1)
    IN  [stats_dict |-> fl.stats_dict,
         cur_seq_specs |-> assign_anticodons(fl.cur_seq_specs)]

-----------------------------------------------------------------------------
(* The failed sequence *)

IsShortOffByOne(length) == length < sub_size - 1

\* if length < 24
IsShort(length) == length < 24

RejectStatsSwapped(stats, rec, length) ==
    LET s1 == IF rec.t_loop_error /\ rec.acceptor_error
              THEN IF IsShort(length) THEN Inc(stats, "short_rejected")
                   ELSE Inc(stats, "both_rejected")
              ELSE IF rec.acceptor_error /\ ~rec.t_loop_error
              THEN Inc(stats, "t_loop_seq_rejected")
              ELSE IF rec.t_loop_error /\ ~rec.acceptor_error
              THEN Inc(stats, "acceptor_seq_rejected")
              ELSE stats
    IN  Inc(s1, "total_rejected")

RejectStats(stats, rec, length) ==
    LET s1 == IF rec.t_loop_error /\ rec.acceptor_error
              THEN IF IsShort(length) THEN Inc(stats, "short_rejected")
                   ELSE Inc(stats, "both_rejected")
              ELSE IF rec.acceptor_error /\ ~rec.t_loop_error
              THEN Inc(stats, "acceptor_seq_rejected")
              ELSE IF rec.t_loop_error /\ ~rec.acceptor_error
              THEN Inc(stats, "t_loop_seq_rejected")
              ELSE stats
    IN  Inc(s1, "total_rejected")

-----------------------------------------------------------------------------
(* is_tRNA as one function of the counters and the read *)

\* range(length - sub_size + 1)
NumWindows(s) == PyRangeLen(Len(s) - sub_size + 1)

RECURSIVE ScanFrom(_, _, _, _)
\* The loop of is_tRNA from iteration k on, and the code after it.
ScanFrom(stats, rec, s, k) ==
    IF k >= NumWindows(s)
    THEN [accepted |-> FALSE, cur_seq_specs |-> rec,
          stats_dict |-> RejectStats(stats, rec, Len(s))]
    ELSE IF Accepts(MisCount(Window(s, k)))
    THEN LET h == handle_pass_seq(stats, UpdateBest(rec, s, k), k)
         IN  [accepted |-> TRUE, cur_seq_specs |-> h.cur_seq_specs,
              stats_dict |-> h.stats_dict]
    ELSE ScanFrom(stats, UpdateBest(rec, s, k), s, k + 1)

is_tRNA(stats, s) == ScanFrom(stats, SeqSpecs, s, 0)

-----------------------------------------------------------------------------
(* The reads fed to the classifier *)

Rep(c, n) == [k \in 1..n |-> c]

\* A 24-base window with the given T-loop start, base 8 and acceptor.
Win(t4, c8, acc) == t4 \o Rep("A", 4) \o <<c8>> \o Rep("A", 12) \o acc

Canonical == Win(GTTC, "C", CCA)

LowerChar(c) ==
    CASE c = "A" -> "a"
      [] c = "C" -> "c"
      [] c = "G" -> "g"
      [] c = "T" -> "t"
      [] OTHER -> c

Lower(s) == [k \in DOMAIN s |-> LowerChar(s[k])]

\* n filler bases with chosen bases at the 0-based positions 7 and 13.
Prefix(n, p7, p13) ==
    [k \in 1..n |-> IF k = 8 THEN p7 ELSE IF k = 14 THEN p13 ELSE "A"]

TLoopVariants ==
    {GTTC, <<"A", "T", "T", "C">>, <<"G", "A", "T", "C">>,
     <<"G", "T", "A", "C">>, <<"G", "T", "T", "A">>, <<"T", "T", "C", "G">>}

AcceptorVariants ==
    {CCA, <<"A", "C", "A">>, <<"C", "A", "A">>, <<"C", "C", "C">>}

ShortReads == {<<>>, <<"A", "C", "G", "T">>, Tail(Canonical)}

SingleSiteReads ==
    {Win(t, "C", CCA) : t \in TLoopVariants}
        \cup {Win(GTTC, "A", CCA)}
        \cup {Win(GTTC, "C", a) : a \in AcceptorVariants}

DoubleSiteReads ==
    {Win(<<"A", "T", "T", "C">>, "C", <<"A", "C", "A">>),
     Win(<<"A", "T", "T", "C">>, "A", CCA),
     Win(GTTC, "C", <<"A", "A", "C">>)}

TrailerReads ==
    {w \o Rep("G", n) :
        w \in {Canonical, Win(<<"G", "T", "T", "A">>, "C", CCA)},
        n \in 1..MaxTrailer}

TwoWindowReads ==
    {Canonical \o Win(<<"A", "T", "T", "C">>, "C", CCA),
     Win(GTTC, "C", <<"C", "A", "A">>)
        \o Win(<<"A", "T", "T", "C">>, "A", <<"A", "C", "A">>),
     Win(GTTC, "C", <<"A", "A", "C">>) \o Win(<<"A", "T", "T", "C">>, "A", CCA),
     Win(GTTC, "C", <<"C", "A", "C">>) \o Win(<<"A", "T", "T", "C">>, "A", CCA)}

\* "AAAA" + "GTTCAAAAACAAAAAAAAAAAAAACCA"
ScenarioRead ==
    Rep("A", 4) \o GTTC \o Rep("A", 5) \o <<"C">> \o Rep("A", 14) \o CCA

LongReads ==
    {Prefix(n, "T", "A") \o Canonical : n \in {46, 47, 75, 76}}
        \cup {Prefix(47, "A", "A") \o Canonical,
              Prefix(47, "T", "C") \o Canonical}
        \cup {Prefix(n, "T", "A") \o Canonical \o <<"G">> : n \in {46, 47, 75}}
        \cup {Prefix(47, "T", "A")
                \o Win(<<"A", "T", "T", "C">>, "A", <<"A", "C", "A">>)}

Reads ==
    ShortReads \cup SingleSiteReads \cup DoubleSiteReads \cup TrailerReads
        \cup TwoWindowReads \cup {ScenarioRead} \cup LongReads
        \cup {Lower(Canonical)}

BatchReads ==
    {Canonical, Lower(Canonical), Canonical \o <<"G">>,
     Win(<<"A", "T", "T", "C">>, "C", CCA),
     Win(GTTC, "C", <<"C", "A", "A">>),
     Win(<<"A", "T", "T", "C">>, "C", <<"A", "C", "A">>),
     <<"A", "C", "G", "T">>,
     Prefix(47, "T", "A") \o Canonical}

-----------------------------------------------------------------------------
(* The state machine *)

\* What a finished call is remembered by: outcome, record, counter changes.
Result(accepted, rec, stats, before) ==
    [accepted |-> accepted, record |-> rec,
     delta |-> [c \in Counters |-> stats[c] - before[c]]]

Remember(m, s, r) ==
    IF s \in DOMAIN m THEN m
    ELSE [x \in DOMAIN m \cup {s} |-> IF x = s THEN r ELSE m[x]]

CarriedSeqSpecs == cur_seq_specs

\* cur_seq_specs = SeqSpecs()
NewSeqSpecs == SeqSpecs

Init ==
    /\ pc = "idle"
    /\ seq = <<>>
    /\ i = 0
    /\ cur_seq_specs = SeqSpecs
    /\ res = FALSE
    /\ stats_dict = EmptyStats
    /\ stats_entry = EmptyStats
    /\ memo = [x \in {} |-> 0]
    /\ batch = <<>>

\* One iteration of the read loop of process, up to the entry of the scan.
NextRead(raw, max) ==
    /\ pc = "idle"
    /\ stats_dict["total_seqs"] < max
    /\ stats_entry' = stats_dict
    /\ stats_dict' = Inc(stats_dict, "total_seqs")
    /\ seq' = Upper(raw)
    /\ i' = 0
    /\ cur_seq_specs' = NewSeqSpecs
    /\ res' = FALSE
    /\ pc' = "scan"
    /\ UNCHANGED <<memo, batch>>

\* A loop iteration whose window is not accepted.
EvalWindow ==
    /\ pc = "scan"
    /\ i < NumWindows(seq)
    /\ ~Accepts(MisCount(Window(seq, i)))
    /\ cur_seq_specs' = UpdateBest(cur_seq_specs, seq, i)
    /\ i' = i + 1
    /\ UNCHANGED <<pc, seq, res, stats_dict, stats_entry, memo, batch>>

\* The history variables after a call has returned; they are recorded in
\* the runs of SpecBatch only (keep).
Record(keep, accepted, rec, stats) ==
    IF keep
    THEN /\ memo' = Remember(memo, seq, Result(accepted, rec, stats, stats_entry))
         /\ batch' = Append(batch, seq)
    ELSE UNCHANGED <<memo, batch>>

\* A loop iteration whose window is accepted: handle_pass_seq and return.
AcceptWindow(keep) ==
    /\ pc = "scan"
    /\ i < NumWindows(seq)
    /\ Accepts(MisCount(Window(seq, i)))
    /\ LET h == handle_pass_seq(stats_dict, UpdateBest(cur_seq_specs, seq, i), i)
       IN  /\ cur_seq_specs' = h.cur_seq_specs
           /\ stats_dict' = h.stats_dict
           /\ Record(keep, TRUE, h.cur_seq_specs, h.stats_dict)
    /\ res' = TRUE
    /\ pc' = "done"
    /\ UNCHANGED <<seq, i, stats_entry>>

\* The loop is exhausted: the failed sequence is counted and returned.
RejectSeq(keep) ==
    /\ pc = "scan"
    /\ i >= NumWindows(seq)
    /\ LET s1 == RejectStats(stats_dict, cur_seq_specs, Len(seq))
       IN  /\ stats_dict' = s1
           /\ Record(keep, FALSE, cur_seq_specs, s1)
    /\ res' = FALSE
    /\ pc' = "done"
    /\ UNCHANGED <<seq, i, cur_seq_specs, stats_entry>>

\* Back in the read loop of process.
ReturnToLoop ==
    /\ pc = "done"
    /\ pc' = "idle"
    /\ UNCHANGED <<seq, i, cur_seq_specs, res, stats_dict, stats_entry, memo, batch>>

Next ==
    \/ \E raw \in Reads : NextRead(raw, MaxReads)
    \/ EvalWindow
    \/ AcceptWindow(FALSE)
    \/ RejectSeq(FALSE)
    \/ ReturnToLoop

Spec == Init /\ [][Next]_vars

NextBatch ==
    \/ \E raw \in BatchReads : NextRead(raw, MaxBatch)
    \/ EvalWindow
    \/ AcceptWindow(TRUE)
    \/ RejectSeq(TRUE)
    \/ ReturnToLoop

SpecBatch == Init /\ [][NextBatch]_vars

-----------------------------------------------------------------------------
(* Vocabulary of the properties *)

\* What the running (or last) loop iteration has added to counter c.
Delta(c) == stats_dict[c] - stats_entry[c]

\* The 24 bases of the read that end k bases before its 3' end.
WindowAt(k) == SubSeq(seq, Len(seq) - k - 23, Len(seq) - k)

Score(k) == TLoopDist(WindowAt(k)) + AcceptorDist(WindowAt(k))

\* The windows of the read that qualify for acceptance.
Qualifying == {k \in 0..(Len(seq) - 24) : Score(k) < 2}

\* The record's window fields are those of window k.
DescribesWindow(rec, k) ==
    /\ rec.seq_sub = WindowAt(k)
    /\ rec.mis_count = Score(k)
    /\ rec.t_loop_error = (TLoopDist(WindowAt(k)) >= 1)
    /\ rec.acceptor_error = (AcceptorDist(WindowAt(k)) >= 1)
    /\ rec.t_loop_seq = SubSeq(WindowAt(k), 1, 9)
    /\ rec.acceptor_seq = SubSeq(WindowAt(k), 22, 24)

\* The record's window fields are still those of a new SeqSpecs.
DescribesNoWindow(rec) ==
    /\ rec.mis_count = 100
    /\ rec.t_loop_error /\ rec.acceptor_error
    /\ rec.seq_sub = <<>> /\ rec.t_loop_seq = <<>> /\ rec.acceptor_seq = <<>>

WindowFields(rec) ==
    <<rec.mis_count, rec.t_loop_error, rec.acceptor_error,
      rec.seq_sub, rec.t_loop_seq, rec.acceptor_seq>>

\* The number of windows the running (or last) call has evaluated.
Evaluated == IF pc = "scan" THEN i ELSE IF res THEN i + 1 ELSE i

DivergenceCounters == {"t_loop_divergence", "acceptor_divergence", "no_divergence"}

RejectCounters ==
    {"short_rejected", "both_rejected", "acceptor_seq_rejected", "t_loop_seq_rejected"}

TLoopPosCounters == {"div_at_0", "div_at_1", "div_at_2", "div_at_3", "div_at_8"}

AcceptorPosCounters == {"div_at_neg_3", "div_at_neg_2", "div_at_neg_1"}

\* Exactly counter c of the set S went up, by one.
OnlyIncremented(S, c) == \A x \in S : Delta(x) = (IF x = c THEN 1 ELSE 0)

NoneIncremented(S) == \A x \in S : Delta(x) = 0

-----------------------------------------------------------------------------
(* C1 *)

\* C1: a read shorter than 24 bases has no window evaluated and is returned
\* as a rejection with the record at its defaults; of the counters only
\* short_rejected and total_rejected (and the caller's total_seqs) went up,
\* each by one.
C1_ShortReadRejected ==
    (pc \in {"scan", "done"} /\ Len(seq) < 24) =>
        /\ i = 0
        /\ cur_seq_specs.mis_count = 100
        /\ cur_seq_specs.t_loop_error /\ cur_seq_specs.acceptor_error
        /\ cur_seq_specs.length = 0 /\ cur_seq_specs.trailer_length = 0
        /\ cur_seq_specs.seq = <<>>
        /\ cur_seq_specs = SeqSpecs
        /\ pc = "done" =>
            /\ ~res
            /\ \A c \in Counters :
                Delta(c) = (IF c \in {"short_rejected", "total_rejected", "total_seqs"}
                            THEN 1 ELSE 0)

C1_Witness == pc = "done" /\ Len(seq) = 23 /\ ~res

-----------------------------------------------------------------------------
(* C2 *)

\* C2: a read of at least 24 bases is accepted iff one of its windows scores
\* below 2, and then at the smallest such offset, with the record describing
\* exactly that window.
C2_FirstQualifyingWindow ==
    (pc = "done" /\ Len(seq) >= 24) =>
        /\ res <=> (Qualifying # {})
        /\ res =>
            /\ i \in Qualifying
            /\ \A k \in Qualifying : i <= k
            /\ DescribesWindow(cur_seq_specs, i)

\* Accepted at a window although a window further from the 3' end scores better.
C2_Witness ==
    /\ pc = "done" /\ res
    /\ \E k \in (i + 1)..(Len(seq) - 24) : Score(k) < Score(i)

-----------------------------------------------------------------------------
(* C3 *)

\* C3 as stated: the scenario read is accepted at offset 0 with score 0.
C3_ScenarioAccepted ==
    (pc = "done" /\ seq = ScenarioRead) =>
        /\ res /\ i = 0
        /\ cur_seq_specs.mis_count = 0
        /\ ~cur_seq_specs.t_loop_error /\ ~cur_seq_specs.acceptor_error
        /\ Delta("no_divergence") = 1 /\ Delta("total_passed") = 1

\* C3 amended: the scenario read is rejected after all of its 8 windows; the
\* best one is at offset 3 with score 3 and both errors, and the call counts
\* one both_rejected and one total_rejected and nothing as passed.
C3_ScenarioRejected ==
    (pc = "done" /\ seq = ScenarioRead) =>
        /\ ~res /\ i = 8
        /\ Qualifying = {}
        /\ Score(0) = 5
        /\ cur_seq_specs.mis_count = 3
        /\ cur_seq_specs.seq_sub = WindowAt(3)
        /\ cur_seq_specs.t_loop_error /\ cur_seq_specs.acceptor_error
        /\ Delta("both_rejected") = 1 /\ Delta("total_rejected") = 1
        /\ Delta("no_divergence") = 0 /\ Delta("total_passed") = 0

C3_Witness == pc = "done" /\ seq = ScenarioRead /\ Len(seq) = 31

-----------------------------------------------------------------------------
(* C4 *)

\* The divergence counter an accepted record is attributed to.
DivergenceOf(rec) ==
    IF rec.t_loop_error THEN "t_loop_divergence"
    ELSE IF rec.acceptor_error THEN "acceptor_divergence"
    ELSE "no_divergence"

\* C4: an accepted read adds one to total_passed and to exactly one of the
\* three divergence counters, chosen by the accepted window's flags; a
\* rejected read adds to none of them; total_passed is always their sum.
C4_DivergenceAttribution ==
    /\ (pc = "done" /\ res) =>
        /\ Delta("total_passed") = 1
        /\ DescribesWindow(cur_seq_specs, i)
        /\ OnlyIncremented(DivergenceCounters, DivergenceOf(cur_seq_specs))
    /\ (pc = "done" /\ ~res) =>
        /\ Delta("total_passed") = 0
        /\ NoneIncremented(DivergenceCounters)
    /\ stats_dict["total_passed"] =
        stats_dict["t_loop_divergence"] + stats_dict["acceptor_divergence"]
            + stats_dict["no_divergence"]

\* Two accepted reads attributed to two different divergence counters.
C4_Witness ==
    /\ pc = "done" /\ res
    /\ stats_dict["total_passed"] = 2
    /\ Delta("no_divergence") = 1
    /\ stats_dict["t_loop_divergence"] + stats_dict["acceptor_divergence"] = 1

-----------------------------------------------------------------------------
(* C5 *)

\* C5: after acceptance at offset i the kept sequence is the first L - i bases
\* of the read and ends with the accepted window, the trailer is the last i
\* bases, kept sequence and trailer together are the read, and length and
\* trailer_length are L - i and i.
C5_TrailerSplit ==
    (pc = "done" /\ res) =>
        LET L == Len(seq)
            kept == cur_seq_specs.seq
            trailer == cur_seq_specs.three_trailer
        IN  /\ kept = SubSeq(seq, 1, L - i)
            /\ SubSeq(kept, Len(kept) - 23, Len(kept)) = cur_seq_specs.seq_sub
            /\ cur_seq_specs.seq_sub = WindowAt(i)
            /\ trailer = SubSeq(seq, L - i + 1, L)
            /\ kept \o trailer = seq
            /\ cur_seq_specs.length = L - i
            /\ cur_seq_specs.trailer_length = i
            /\ (cur_seq_specs.trailer_length = 0) <=> (i = 0)

C5_Witness ==
    /\ pc = "done" /\ res
    /\ i >= 2
    /\ cur_seq_specs.trailer_length = i

-----------------------------------------------------------------------------
(* C6 *)

\* C6: full_length is set, and total_full_length counted, exactly for an
\* accepted read whose trimmed length L - i lies strictly between 70 and 100
\* and whose trimmed sequence has T at position 7 and A at position 13; the
\* two positions lie inside the trimmed sequence whenever they are read.
C6_FullLengthOnTrimmed ==
    pc = "done" =>
        LET trimmed == Len(seq) - i
            full == /\ res
                    /\ 70 < trimmed /\ trimmed < 100
                    /\ seq[8] = "T" /\ seq[14] = "A"
        IN  /\ cur_seq_specs.full_length <=> full
            /\ Delta("total_full_length") = (IF full THEN 1 ELSE 0)
            /\ res =>
                /\ cur_seq_specs.length = trimmed
                /\ Len(cur_seq_specs.seq) = trimmed
                /\ (70 < cur_seq_specs.length /\ cur_seq_specs.length < 100)
                    => 14 <= Len(cur_seq_specs.seq)

\* Full length only because the trailer was split off first.
C6_Witness ==
    /\ pc = "done" /\ res
    /\ cur_seq_specs.full_length
    /\ Len(seq) = 100 /\ cur_seq_specs.length = 99
    /\ Delta("total_full_length") = 1

-----------------------------------------------------------------------------
(* C7 *)

RECURSIVE BatchSum(_, _)
\* What the first k reads of the batch add to counter c, each read counted
\* with the changes remembered for it.
BatchSum(c, k) ==
    IF k = 0 THEN 0 ELSE memo[batch[k]].delta[c] + BatchSum(c, k - 1)

\* C7: a call returns what the first call on the same read returned, and
\* what is_tRNA computes for that read alone from a new record and empty
\* counters, whatever was classified before; so the counters are the sum,
\* over the reads of the batch, of changes that depend on the read only.
C7_Idempotent ==
    /\ pc = "done" =>
        LET now == Result(res, cur_seq_specs, stats_dict, stats_entry)
            alone == is_tRNA(EmptyStats, seq)
        IN  /\ seq \in DOMAIN memo
            /\ now = memo[seq]
            /\ now.accepted = alone.accepted
            /\ now.record = alone.cur_seq_specs
            /\ now.delta = Inc(alone.stats_dict, "total_seqs")
    /\ pc \in {"done", "idle"} =>
        \A c \in Counters : stats_dict[c] = BatchSum(c, Len(batch))

\* The same read classified twice with a read of the other outcome between.
C7_Witness ==
    /\ pc = "done"
    /\ Len(batch) = 3
    /\ batch[1] = batch[3] /\ batch[2] # batch[1]
    /\ memo[batch[2]].accepted # res
    /\ cur_seq_specs.trailer_length > 0

-----------------------------------------------------------------------------
(* C8 *)

\* The reason counter the record of a rejected read calls for, the short
\* test made on the record's length field.
ReasonOf(rec) ==
    IF rec.t_loop_error /\ rec.acceptor_error
    THEN (IF rec.length < 24 THEN "short_rejected" ELSE "both_rejected")
    ELSE IF rec.acceptor_error THEN "acceptor_seq_rejected"
    ELSE "t_loop_seq_rejected"

\* Window k has the lowest score of all windows of the read.
LowestScore(k) == \A j \in 0..(Len(seq) - 24) : Score(k) <= Score(j)

\* C8: a rejected read counts one total_rejected and exactly one reason, the
\* one its record's flags call for; the flags are those of a lowest-score
\* window, are never both false, and the record's length is below 24 exactly
\* when the read's is; total_rejected is always the sum of the four reasons.
C8_RejectionReason ==
    /\ (pc = "done" /\ ~res) =>
        /\ Delta("total_rejected") = 1
        /\ cur_seq_specs.t_loop_error \/ cur_seq_specs.acceptor_error
        /\ (cur_seq_specs.length < 24) <=> (Len(seq) < 24)
        /\ OnlyIncremented(RejectCounters, ReasonOf(cur_seq_specs))
        /\ Len(seq) >= 24 =>
            \E k \in 0..(Len(seq) - 24) :
                LowestScore(k) /\ DescribesWindow(cur_seq_specs, k)
    /\ (pc = "done" /\ res) =>
        /\ Delta("total_rejected") = 0
        /\ NoneIncremented(RejectCounters)
    /\ stats_dict["total_rejected"] =
        stats_dict["short_rejected"] + stats_dict["both_rejected"]
            + stats_dict["acceptor_seq_rejected"] + stats_dict["t_loop_seq_rejected"]

\* Rejected for the flags of the best window, which the last window scanned
\* does not share.
C8_Witness ==
    /\ pc = "done" /\ ~res /\ Len(seq) > 24
    /\ Delta("t_loop_seq_rejected") = 1
    /\ TLoopDist(WindowAt(Len(seq) - 24)) = 0
    /\ cur_seq_specs.seq_sub # WindowAt(Len(seq) - 24)

-----------------------------------------------------------------------------
(* C9 *)

\* The record describes the first of the windows 0..n-1 that has the lowest
\* score among them.
DescribesFirstBest(rec, n) ==
    \E j \in 0..(n - 1) :
        /\ DescribesWindow(rec, j)
        /\ \A k \in 0..(n - 1) :
            IF k < j THEN Score(k) > rec.mis_count ELSE Score(k) >= rec.mis_count

BestSoFar ==
    pc \in {"scan", "done"} =>
        IF Evaluated = 0
        THEN DescribesNoWindow(cur_seq_specs)
        ELSE DescribesFirstBest(cur_seq_specs, Evaluated)

\* One loop iteration: the window fields all become those of window i when
\* its score is strictly lower than the record's, and none changes otherwise.
UpdatedTogether ==
    (pc = "scan" /\ i < Len(seq) - 23) =>
        /\ IF Score(i) < cur_seq_specs.mis_count
           THEN DescribesWindow(cur_seq_specs', i)
           ELSE WindowFields(cur_seq_specs') = WindowFields(cur_seq_specs)
        /\ cur_seq_specs'.mis_count <= cur_seq_specs.mis_count

\* C9: after windows 0..k the record describes the first window of lowest
\* score among them; its window fields change only together and only for a
\* strictly lower score; mis_count never increases during the scan.
C9_BestSoFarRecord == [](BestSoFar) /\ [][UpdatedTogether]_vars

\* A later window has tied the best score and the record kept the earlier one.
C9_Witness ==
    /\ pc = "scan" /\ i > 1
    /\ \E k \in 1..(i - 1) :
        /\ Score(k) = cur_seq_specs.mis_count
        /\ WindowAt(k) # cur_seq_specs.seq_sub
        /\ TLoopDist(WindowAt(k)) # TLoopDist(cur_seq_specs.seq_sub)

-----------------------------------------------------------------------------
(* C10 *)

\* The 1-based window positions the motifs are tested at.
MotifBase ==
    [p \in {1, 2, 3, 4, 9, 22, 23, 24} |->
        CASE p = 1 -> "G" [] p = 2 -> "T" [] p = 3 -> "T" [] p = 4 -> "C"
          [] p = 9 -> "C" [] p = 22 -> "C" [] p = 23 -> "C" [] p = 24 -> "A"]

PosCounter ==
    [p \in {1, 2, 3, 4, 9, 22, 23, 24} |->
        CASE p = 1 -> "div_at_0" [] p = 2 -> "div_at_1" [] p = 3 -> "div_at_2"
          [] p = 4 -> "div_at_3" [] p = 9 -> "div_at_8" [] p = 22 -> "div_at_neg_3"
          [] p = 23 -> "div_at_neg_2" [] p = 24 -> "div_at_neg_1"]

\* The positions of window w that differ from the motifs.
Mismatches(w) == {p \in DOMAIN MotifBase : w[p] # MotifBase[p]}

AllPosCounters == TLoopPosCounters \cup AcceptorPosCounters

RECURSIVE SumOf(_, _)
SumOf(stats, S) ==
    IF S = {} THEN 0
    ELSE LET c == CHOOSE x \in S : TRUE IN stats[c] + SumOf(stats, S \ {c})

\* C10: an accepted window has at most one mismatching position and never
\* both flags; with a flag set, exactly the counter of its one mismatching
\* position goes up (a T-loop position for t_loop_error, an acceptor position
\* for acceptor_error); the div_at counters always sum to the two divergences.
C10_PositionAttribution ==
    /\ (pc = "done" /\ res) =>
        LET w == WindowAt(i)
            rec == cur_seq_specs
        IN  /\ ~(rec.t_loop_error /\ rec.acceptor_error)
            /\ Cardinality(Mismatches(w)) <= 1
            /\ rec.t_loop_error =>
                \E p \in {1, 2, 3, 4, 9} :
                    /\ Mismatches(w) = {p}
                    /\ OnlyIncremented(AllPosCounters, PosCounter[p])
            /\ (rec.acceptor_error /\ ~rec.t_loop_error) =>
                \E p \in {22, 23, 24} :
                    /\ Mismatches(w) = {p}
                    /\ OnlyIncremented(AllPosCounters, PosCounter[p])
            /\ (~rec.acceptor_error /\ ~rec.t_loop_error) =>
                /\ Mismatches(w) = {}
                /\ NoneIncremented(AllPosCounters)
    /\ (pc = "done" /\ ~res) => NoneIncremented(AllPosCounters)
    /\ SumOf(stats_dict, AllPosCounters) =
        stats_dict["t_loop_divergence"] + stats_dict["acceptor_divergence"]

\* A T-loop divergence at position 8 and an acceptor divergence, one run.
C10_Witness ==
    /\ pc = "done" /\ res
    /\ stats_dict["div_at_8"] = 1
    /\ SumOf(stats_dict, AcceptorPosCounters) = 1
    /\ stats_dict["t_loop_divergence"] = 1 /\ stats_dict["acceptor_divergence"] = 1

====
